---- MODULE Spec2Model ----
(***************************************************************************)
(* Model of notebooks/building_in_processing_in_graph.ipynb: the custom    *)
(* Keras layer Normalize (build / call) and the notebook's script, which   *)
(* assembles Input -> Normalize -> Flatten -> Dense(128, relu) ->          *)
(* Dense(10, sigmoid) into a Model, compiles it, trains it and evaluates   *)
(* it.                                                                     *)
(*                                                                         *)
(* Tensors are float32 (the Keras default dtype of Input).  An element is  *)
(* held as its IEEE-754 binary32 bit pattern, an integer below 2^31, and   *)
(* negated for a negative number.  Arithmetic unpacks it to [s, m, e],     *)
(* standing for (-1)^s * m * 2^e with m < 2^24 and EMin <= e <= EMax: a    *)
(* normal number has m >= 2^23, a subnormal one has e = EMin, zero is      *)
(* m = 0 at e = EMin, and infinity is m = 0 at e = EMax + 1.  NaN and the  *)
(* sign of zero are not modelled.                                          *)
(***************************************************************************)
EXTENDS Integers, Sequences, FiniteSets

\* ------------------------------------------------------------ float32

MantBits == 24
EMin == -149
EMax == 104

Top == 2^MantBits
Half == 2^(MantBits - 1)

Flt(s, m, e) == [s |-> s, m |-> m, e |-> e]
IsInf(x) == x.e = EMax + 1
IsZero(x) == x.m = 0 /\ x.e = EMin

\* The bit pattern of (-1)^s * m * 2^e.
Encode(s, m, e) ==
    LET mag == IF m < Half THEN m ELSE (e - EMin) * Half + m
    IN IF s = 1 THEN 0 - mag ELSE mag

InfBits(s) == Encode(s, Half, EMax + 1)

\* The number a bit pattern stands for.
Decode(bits) ==
    LET mag == IF bits < 0 THEN 0 - bits ELSE bits
        E == mag \div Half
        frac == mag % Half
        s == IF bits < 0 THEN 1 ELSE 0
    IN IF E = 0 THEN Flt(s, frac, EMin)
       ELSE IF E = EMax - EMin + 2 THEN Flt(s, 0, EMax + 1)
       ELSE Flt(s, Half + frac, E - 1 + EMin)

\* floor(log2 n) for n >= 1.
RECURSIVE Log2(_)
Log2(n) == IF n <= 1 THEN 0 ELSE 1 + Log2(n \div 2)

\* The float32 of a non-negative integer n < 2^24 (exact).
FromInt(n) ==
    IF n = 0 THEN 0
    ELSE LET l == Log2(n) IN Encode(0, n * 2^(MantBits - 1 - l), l - (MantBits - 1))

\* Packs a rounded result; a carry out of the mantissa after rounding up
\* is 2^24 * 2^e = 2^23 * 2^(e+1).
Pack(s, m, e) ==
    IF m = Top
    THEN (IF e + 1 > EMax THEN InfBits(s) ELSE Encode(s, Half, e + 1))
    ELSE IF e > EMax THEN InfBits(s) ELSE Encode(s, m, e)

\* ---------------------------------------------------------- Normalize

\* A mistyped constant.
Scale_typo == 255 - 30

\* The constant of `inputs / 255.0`.
Scale == 255

\* floor(m * 2^k / Scale) and the remainder's numerator, without leaving 32 bits.
DivFloor(m, k) == (m \div Scale) * 2^k + ((m % Scale) * 2^k) \div Scale
DivRem(m, k) == ((m % Scale) * 2^k) % Scale

\* bits / 255.0 in float32, round to nearest, ties to even.
FDivScale(bits) ==
    LET v == Decode(bits) IN
    IF IsInf(v) \/ IsZero(v) THEN bits
    ELSE LET room == IF v.e - EMin < 8 THEN v.e - EMin ELSE 8
             k == CHOOSE k \in 0..room :
                     /\ DivFloor(v.m, k) < Top
                     /\ \A j \in (k+1)..room : DivFloor(v.m, j) >= Top
             q == DivFloor(v.m, k)
             r == DivRem(v.m, k)
             up == 2 * r > Scale \/ (2 * r = Scale /\ q % 2 = 1)
         IN Pack(v.s, IF up THEN q + 1 ELSE q, v.e - k)

\* ------------------------------------------------------------ tensors

\* A tensor: its shape, its elements in row-major order, and the dense
\* stages applied to it so far (a dense stage's arithmetic is the
\* framework's; its result is kept as the application of the stage, with
\* its parameters, to `data`).
Tensor(shape, data) == [shape |-> shape, data |-> data, term |-> <<>>]

RECURSIVE Prod(_)
Prod(sh) == IF sh = <<>> THEN 1 ELSE Head(sh) * Prod(Tail(sh))

Filled(shape, v) == Tensor(shape, [i \in 1..Prod(shape) |-> v])

\* ---------------------------------------------------- class Normalize

\* def __init__(self): super(Normalize, self).__init__()
\* The layer object after construction: not built, no kernel attribute.
Normalize_init == [constructed |-> TRUE, built |-> FALSE, kernel |-> "unset"]

\* build() that creates a trainable kernel.
Normalize_build_trainable(self, input_shape) == [self EXCEPT !.kernel = "Variable"]

\* def build(self, input_shape): self.kernel = None
Normalize_build(self, input_shape) == [self EXCEPT !.kernel = "None"]

\* call() that divides by 256.0 (an exponent lower by 8; tiny values flush to 0).
Normalize_call_256(inputs) ==
    [inputs EXCEPT !.data = [i \in DOMAIN inputs.data |->
        LET b == inputs.data[i] IN
        IF b >= 9 * Half THEN b - 8 * Half
        ELSE IF b <= 0 - 9 * Half THEN b + 8 * Half
        ELSE 0]]

\* call() whose division is never returned.
Normalize_call_unchanged(inputs) == inputs

\* def call(self, inputs): inputs = inputs / 255.0; return inputs
\* The scalar 255.0 is broadcast over the whole tensor.
Normalize_call(inputs) ==
    [inputs EXCEPT !.data = [i \in DOMAIN inputs.data |-> FDivScale(inputs.data[i])]]

\* layers.Layer.__call__, as `Normalize()(inputs)` and every later pass
\* reach it: the first call builds the layer with the input's shape.
Layer_call(self, input_shape) ==
    IF self.built THEN self
    ELSE [Normalize_build(self, input_shape) EXCEPT !.built = TRUE]

\* ------------------------------------------------------- the notebook

VARIABLES
    pc,         \* the next statement of the notebook ("direct": the layer used on its own)
    norm,       \* the Normalize layer object
    inputs,     \* inputs = Input((28, 28))
    x,          \* the notebook's variable x
    outputs,    \* outputs = Dense(10, activation='sigmoid')(x)
    model,      \* model = Model(inputs, outputs)
    weights,    \* the parameters of the two Dense layers
    fp,         \* the forward pass in progress, if any
    fitSteps,   \* forward passes run by model.fit so far
    evalSteps,  \* forward passes run by model.evaluate so far
    inp,        \* direct use: the argument of the last call of the layer
    out,        \* direct use: what that call returned
    firstShape, \* direct use: the shape of the first input the layer processed
    ncalls      \* direct use: calls made so far

vars == <<pc, norm, inputs, x, outputs, model, weights, fp, fitSteps,
          evalSteps, inp, out, firstShape, ncalls>>

nbVars == <<inputs, x, outputs, model, weights, fp, fitSteps, evalSteps>>
directVars == <<inp, out, firstShape, ncalls>>

\* Bounds of the model.
MaxBatch == 1
MaxW == 1
MaxFitSteps == 2
MaxEvalSteps == 2
MaxCalls == 2

\* The program's constants.
ImgRows == 28
ImgCols == 28
Units1 == 128
Units2 == 10

\* The batch dimension of a symbolic tensor (None).
None == -1

NoTensor == Tensor(<<0>>, <<>>)
NoSym == [shape |-> <<>>, history |-> <<>>]
NoLayer == [constructed |-> FALSE, built |-> FALSE, kernel |-> "unset"]
NoModel == [layers |-> <<>>, created |-> FALSE, compiled |-> FALSE,
            input_shape |-> <<>>, output_shape |-> <<>>]
Idle == [active |-> FALSE, mode |-> "none", pos |-> 0, cur |-> NoTensor,
         batch |-> <<>>, trace |-> <<>>]

WeightVals == 0..MaxW

\* ---- the framework's layers, as the notebook uses them

\* A Flatten that leaves the shape as it is.
FlattenShape_keep(sh) == sh

\* Flatten: every dimension after the batch dimension becomes one.
FlattenShape(sh) == <<Head(sh), Prod(Tail(sh))>>
Flatten_call(t) == [t EXCEPT !.shape = FlattenShape(t.shape)]

\* Dense(units): replaces the last dimension by units.
DenseShape(sh, units) == SubSeq(sh, 1, Len(sh) - 1) \o <<units>>
Dense_call(t, name, units, activation, w) ==
    [t EXCEPT !.shape = DenseShape(t.shape, units),
              !.term = Append(t.term, [layer |-> name, units |-> units,
                                       activation |-> activation, w |-> w])]

\* ---- model assembly (the cell "Build the Model")

\* inputs = Input((28, 28))
InputCell ==
    /\ pc = "input"
    /\ inputs' = [shape |-> <<None, ImgRows, ImgCols>>, history |-> <<>>]
    /\ pc' = "normalize"
    /\ UNCHANGED <<norm, x, outputs, model, weights, fp, fitSteps, evalSteps>>
    /\ UNCHANGED directVars

\* Normalize(): the constructor, in the notebook's `Normalize()(inputs)` or
\* on its own.
NewNormalize ==
    /\ pc \in {"normalize", "direct"}
    /\ ~norm.constructed
    /\ norm' = Normalize_init
    /\ UNCHANGED <<pc, nbVars, directVars>>

\* x = Normalize()(inputs): the layer is called on the symbolic input, which
\* builds it and traces call().
NormalizeCell ==
    /\ pc = "normalize"
    /\ norm.constructed
    /\ norm' = Layer_call(norm, inputs.shape)
    /\ x' = [shape |-> Normalize_call(Tensor(inputs.shape, <<>>)).shape,
             history |-> Append(inputs.history, "normalize")]
    /\ pc' = "flatten"
    /\ UNCHANGED <<inputs, outputs, model, weights, fp, fitSteps, evalSteps>>
    /\ UNCHANGED directVars

\* x = Flatten()(x)
FlattenCell ==
    /\ pc = "flatten"
    /\ x' = [shape |-> FlattenShape(x.shape), history |-> Append(x.history, "flatten")]
    /\ pc' = "dense_1"
    /\ UNCHANGED <<norm, inputs, outputs, model, weights, fp, fitSteps, evalSteps>>
    /\ UNCHANGED directVars

\* x = Dense(128, activation='relu')(x); the layer's parameters are
\* initialised at random.
Dense1Cell ==
    /\ pc = "dense_1"
    /\ IF Len(x.shape) >= 2
       THEN /\ x' = [shape |-> DenseShape(x.shape, Units1),
                     history |-> Append(x.history, "dense_1")]
            /\ \E w \in WeightVals : weights' = [weights EXCEPT !.dense_1 = w]
            /\ pc' = "dense_2"
       ELSE /\ pc' = "error"
            /\ UNCHANGED <<x, weights>>
    /\ UNCHANGED <<norm, inputs, outputs, model, fp, fitSteps, evalSteps>>
    /\ UNCHANGED directVars

\* outputs = Dense(10, activation='sigmoid')(x)
Dense2Cell ==
    /\ pc = "dense_2"
    /\ IF Len(x.shape) >= 2
       THEN /\ outputs' = [shape |-> DenseShape(x.shape, Units2),
                           history |-> Append(x.history, "dense_2")]
            /\ \E w \in WeightVals : weights' = [weights EXCEPT !.dense_2 = w]
            /\ pc' = "model"
       ELSE /\ pc' = "error"
            /\ UNCHANGED <<outputs, weights>>
    /\ UNCHANGED <<norm, inputs, x, model, fp, fitSteps, evalSteps>>
    /\ UNCHANGED directVars

\* A Model that keeps the layers in the order it finds them walking back
\* from outputs to inputs.
NewModel_reversed(ins, outs) ==
    [layers |-> [i \in 1..Len(outs.history) |-> outs.history[Len(outs.history) + 1 - i]],
     created |-> TRUE, compiled |-> FALSE,
     input_shape |-> ins.shape, output_shape |-> outs.shape]

\* model = Model(inputs, outputs): the layers on the path from inputs to outputs.
NewModel(ins, outs) ==
    [layers |-> outs.history, created |-> TRUE, compiled |-> FALSE,
     input_shape |-> ins.shape, output_shape |-> outs.shape]

ModelCell ==
    /\ pc = "model"
    /\ model' = NewModel(inputs, outputs)
    /\ pc' = "compile"
    /\ UNCHANGED <<norm, inputs, x, outputs, weights, fp, fitSteps, evalSteps>>
    /\ UNCHANGED directVars

\* A compile that rebuilds the model without its first layer.
Compile_rebuild(m) == [m EXCEPT !.compiled = TRUE, !.layers = Tail(m.layers)]

\* model.compile(loss=..., optimizer='adam', metrics=['acc'])
Compile(m) == [m EXCEPT !.compiled = TRUE]

CompileCell ==
    /\ pc = "compile"
    /\ model' = Compile(model)
    /\ pc' = "fit"
    /\ UNCHANGED <<norm, inputs, x, outputs, weights, fp, fitSteps, evalSteps>>
    /\ UNCHANGED directVars

\* ---- the data (mnist.load_data(): images of raw pixel values 0..255)

\* Three images: all 0, all 255, and one holding every pixel value.
ImageIds == 1..3
Pixel(id, i) ==
    CASE id = 1 -> 0
      [] id = 2 -> 255
      [] OTHER -> (i - 1) % 256

ImgSize == ImgRows * ImgCols

Batches == UNION {[1..n -> ImageIds] : n \in 1..MaxBatch}

BatchTensor(b) ==
    Tensor(<<Len(b), ImgRows, ImgCols>>,
           [i \in 1..(Len(b) * ImgSize) |->
               FromInt(Pixel(b[((i - 1) \div ImgSize) + 1], ((i - 1) % ImgSize) + 1))])

\* ---- forward passes (model.fit and model.evaluate call the model)

\* Layers whose first Dense behaves differently while training.
ApplyLayer_training(name, cur, w) ==
    CASE name = "normalize" -> Normalize_call(cur)
      [] name = "flatten" -> Flatten_call(cur)
      [] name = "dense_1" ->
            Dense_call(cur, name, Units1, IF fp.mode = "train" THEN "relu_train" ELSE "relu",
                       w.dense_1)
      [] name = "dense_2" -> Dense_call(cur, name, Units2, "sigmoid", w.dense_2)

\* One layer of the model applied to the tensor that reached it.
ApplyLayer(name, cur, w) ==
    CASE name = "normalize" -> Normalize_call(cur)
      [] name = "flatten" -> Flatten_call(cur)
      [] name = "dense_1" -> Dense_call(cur, name, Units1, "relu", w.dense_1)
      [] name = "dense_2" -> Dense_call(cur, name, Units2, "sigmoid", w.dense_2)

\* The layer a pass at position pos runs next.
NextLayer(m, pos) == m.layers[pos]

\* model.fit(x_train, y_train, ..., validation_split=0.1): a training step's
\* forward pass, or a validation pass.
StartFitPass ==
    /\ pc = "fit"
    /\ ~fp.active
    /\ fitSteps < MaxFitSteps
    /\ \E b \in Batches, mode \in {"train", "validate"} :
          fp' = [active |-> TRUE, mode |-> mode, pos |-> 1, cur |-> BatchTensor(b),
                 batch |-> b, trace |-> <<>>]
    /\ fitSteps' = fitSteps + 1
    /\ UNCHANGED <<pc, norm, inputs, x, outputs, model, weights, evalSteps>>
    /\ UNCHANGED directVars

\* model.evaluate(x_test, y_test)
StartEvalPass ==
    /\ pc = "evaluate"
    /\ ~fp.active
    /\ evalSteps < MaxEvalSteps
    /\ \E b \in Batches :
          fp' = [active |-> TRUE, mode |-> "test", pos |-> 1, cur |-> BatchTensor(b),
                 batch |-> b, trace |-> <<>>]
    /\ evalSteps' = evalSteps + 1
    /\ UNCHANGED <<pc, norm, inputs, x, outputs, model, weights, fitSteps>>
    /\ UNCHANGED directVars

\* The pass runs its next layer.
RunStage ==
    /\ fp.active
    /\ fp.pos <= Len(model.layers)
    /\ LET name == NextLayer(model, fp.pos) IN
          /\ fp' = [fp EXCEPT !.cur = ApplyLayer(name, fp.cur, weights),
                              !.pos = fp.pos + 1,
                              !.trace = Append(fp.trace, name)]
          /\ norm' = IF name = "normalize" THEN Layer_call(norm, fp.cur.shape) ELSE norm
    /\ UNCHANGED <<pc, inputs, x, outputs, model, weights, fitSteps, evalSteps>>
    /\ UNCHANGED directVars

\* What a training step does to the parameters: the optimizer's update, any
\* values at all.
TrainUpdate(w) == [dense_1 : WeightVals, dense_2 : WeightVals]

\* The pass is over; a training step then updates the Dense parameters.
EndPass ==
    /\ fp.active
    /\ fp.pos > Len(model.layers)
    /\ IF fp.mode = "train"
       THEN weights' \in TrainUpdate(weights)
       ELSE weights' = weights
    /\ fp' = Idle
    /\ UNCHANGED <<pc, norm, inputs, x, outputs, model, fitSteps, evalSteps>>
    /\ UNCHANGED directVars

\* model.fit returns.
FitDone ==
    /\ pc = "fit"
    /\ ~fp.active
    /\ fitSteps >= 1
    /\ pc' = "evaluate"
    /\ UNCHANGED <<norm, nbVars, directVars>>

\* model.evaluate returns.
EvaluateDone ==
    /\ pc = "evaluate"
    /\ ~fp.active
    /\ evalSteps >= 1
    /\ pc' = "done"
    /\ UNCHANGED <<norm, nbVars, directVars>>

Init ==
    /\ pc = "input"
    /\ norm = NoLayer
    /\ inputs = NoSym
    /\ x = NoSym
    /\ outputs = NoSym
    /\ model = NoModel
    /\ weights = [dense_1 |-> 0, dense_2 |-> 0]
    /\ fp = Idle
    /\ fitSteps = 0
    /\ evalSteps = 0
    /\ inp = NoTensor
    /\ out = NoTensor
    /\ firstShape = <<0>>
    /\ ncalls = 0

Next ==
    \/ InputCell
    \/ NewNormalize
    \/ NormalizeCell
    \/ FlattenCell
    \/ Dense1Cell
    \/ Dense2Cell
    \/ ModelCell
    \/ CompileCell
    \/ StartFitPass
    \/ StartEvalPass
    \/ RunStage
    \/ EndPass
    \/ FitDone
    \/ EvaluateDone

Spec == Init /\ [][Next]_vars

\* ---- the layer used on its own: Normalize() called on tensors of any shape

\* Sample elements: 1.0, 255.00002 (odd mantissa near the top of its binade),
\* -3.0, the largest float32, the smallest normal one, and a subnormal one.
Samples ==
    {FromInt(1), Encode(0, 16711681, -16), Encode(1, 3 * 2^22, -22),
     Encode(0, Top - 1, EMax), Encode(0, Half, EMin), Encode(0, 128, EMin)}

PixelBits == {FromInt(v) : v \in 0..255}

\* The tensors the layer is called on: scalars and two-element tensors of
\* three shapes over Samples, a (1, 2, 2) tensor filled with each pixel
\* value, and the (1, 28, 28) tensors filled with 0 and with 255.
DirectTensors ==
    {Tensor(<<>>, <<v>>) : v \in Samples}
    \cup {Tensor(sh, <<v, w>>) : sh \in {<<2>>, <<1, 2>>, <<2, 1>>}, v \in Samples, w \in Samples}
    \cup {Filled(<<1, 2, 2>>, p) : p \in PixelBits}
    \cup {Filled(<<1, ImgRows, ImgCols>>, FromInt(v)) : v \in {0, 255}}

\* layer(T): Layer.__call__ builds the layer on its first call, then runs call().
DirectCall ==
    /\ pc = "direct"
    /\ norm.constructed
    /\ ncalls < MaxCalls
    /\ \E T \in DirectTensors :
          /\ norm' = Layer_call(norm, T.shape)
          /\ inp' = T
          /\ out' = Normalize_call(T)
          /\ firstShape' = IF ncalls = 0 THEN T.shape ELSE firstShape
    /\ ncalls' = ncalls + 1
    /\ UNCHANGED <<pc, nbVars>>

InitDirect ==
    /\ pc = "direct"
    /\ norm = NoLayer
    /\ inputs = NoSym
    /\ x = NoSym
    /\ outputs = NoSym
    /\ model = NoModel
    /\ weights = [dense_1 |-> 0, dense_2 |-> 0]
    /\ fp = Idle
    /\ fitSteps = 0
    /\ evalSteps = 0
    /\ inp = NoTensor
    /\ out = NoTensor
    /\ firstShape = <<0>>
    /\ ncalls = 0

NextDirect ==
    \/ NewNormalize
    \/ DirectCall

SpecCall == InitDirect /\ [][NextDirect]_vars

\* ------------------------------------------------------------ properties

Stages == <<"normalize", "flatten", "dense_1", "dense_2">>

\* r is t / 255 correctly rounded: same sign, and 255 * r is within half a
\* unit in the last place of r of t (a quarter below a power of two, where
\* the spacing halves).  With k = t.e - r.e and t.m = 255 a + b, the
\* difference 255 * r.m - t.m * 2^k is 255 * (r.m - a * 2^k) - b * 2^k.
IsQuotient(tbits, rbits) ==
    LET t == Decode(tbits)
        r == Decode(rbits)
        k == t.e - r.e
        D == Scale * (r.m - (t.m \div Scale) * 2^k) - (t.m % Scale) * 2^k
    IN IF IsZero(t) \/ IsInf(t) THEN rbits = tbits
       ELSE /\ ~IsInf(r)
            /\ r.s = t.s \/ IsZero(r)
            /\ k \in 0..8
            /\ 2 * D <= Scale
            /\ 2 * D >= 0 - Scale
            /\ (r.m = Half /\ r.e > EMin) => 4 * D <= Scale

\* C1: Normalize.call(T) has the shape and the index set of T, and each
\* element is the element of T at the same index divided by 255.0.
C1_CallDividesEveryElement ==
    ncalls > 0 =>
        /\ out.shape = inp.shape
        /\ DOMAIN out.data = DOMAIN inp.data
        /\ Len(out.data) = Prod(inp.shape)
        /\ \A i \in DOMAIN inp.data : IsQuotient(inp.data[i], out.data[i])

C1_Witness ==
    /\ ncalls > 0
    /\ inp.shape = <<2, 1>>
    /\ inp.data = <<FromInt(1), Encode(1, 3 * 2^22, -22)>>
    /\ out.data[1] # out.data[2]
    /\ out.data[2] < 0

IsPixelTensor(t) == \A i \in DOMAIN t.data : t.data[i] \in PixelBits

\* C5: on pixel values 0..255 every element of the output lies in [0, 1];
\* a tensor of 0 gives a tensor of 0.0 and a tensor of 255 a tensor of 1.0.
C5_PixelsLandInUnitInterval ==
    (ncalls > 0 /\ IsPixelTensor(inp)) =>
        /\ \A i \in DOMAIN out.data : out.data[i] >= 0 /\ out.data[i] <= FromInt(1)
        /\ inp = Filled(inp.shape, FromInt(0)) => out = Filled(inp.shape, 0)
        /\ inp = Filled(inp.shape, FromInt(255)) => out = Filled(inp.shape, FromInt(1))

C5_Witness ==
    /\ ncalls > 0
    /\ inp = Filled(<<1, ImgRows, ImgCols>>, FromInt(255))
    /\ out = Filled(<<1, ImgRows, ImgCols>>, FromInt(1))

\* bits * 255.0 in float32, round to nearest, ties to even: the inverse the
\* round trip is stated with.
FMulScale(bits) ==
    LET v == Decode(bits) IN
    IF IsInf(v) \/ IsZero(v) THEN bits
    ELSE LET A == Scale * (v.m \div 256)
             B == Scale * (v.m % 256)
             P256 == A + B \div 256
             j == CHOOSE j \in 0..8 :
                     /\ P256 < 2^(16 + j)
                     /\ \A i \in 0..(j-1) : P256 >= 2^(16 + i)
             q == A * 2^(8 - j) + B \div 2^j
             r == B % 2^j
             up == 2 * r > 2^j \/ (2 * r = 2^j /\ q % 2 = 1)
         IN Pack(v.s, IF up THEN q + 1 ELSE q, v.e + j)

Abs(n) == IF n < 0 THEN 0 - n ELSE n

\* The magnitude of a number below 2^-118 in units of 2^-149.
Units(bits) == LET v == Decode(bits) IN v.m * 2^(v.e - EMin)

\* back reconstructs t through the quotient q: within one unit in the last
\* place of t when q is a normal number, and within 255 * 2^-149 when the
\* quotient underflowed to a subnormal number.
Reconstructs(t, q, back) ==
    IF Abs(q) >= Half \/ t = 0
    THEN Abs(back - t) <= 1
    ELSE /\ (back < 0) = (t < 0) \/ back = 0
         /\ Abs(Units(back) - Units(t)) < Scale

\* C6: multiplying Normalize.call(T) by 255.0 gives T back element for
\* element up to floating-point rounding, and exactly on pixel values.
C6_TimesScaleReconstructs ==
    ncalls > 0 =>
        \A i \in DOMAIN inp.data :
            /\ Reconstructs(inp.data[i], out.data[i], FMulScale(out.data[i]))
            /\ inp.data[i] \in PixelBits => FMulScale(out.data[i]) = inp.data[i]

\* A round trip that is not exact: 255.00002 comes back as its neighbour.
C6_Witness ==
    /\ ncalls > 0
    /\ inp.shape = <<1, 2>>
    /\ inp.data[1] = Encode(0, 16711681, -16)
    /\ FMulScale(out.data[1]) = inp.data[1] + 1
    /\ inp.data[2] = Encode(0, 128, EMin)
    /\ FMulScale(out.data[2]) # inp.data[2]

PassComplete == fp.active /\ fp.pos > Len(model.layers)

\* C2: every forward pass, of training or of evaluation, runs Normalize,
\* Flatten, Dense(128, relu), Dense(10, sigmoid) in this order, one stage at
\* a time, none skipped or repeated, and ends only after all four; the raw
\* batch has been through Normalize exactly once when it reaches Flatten.
C2_StagesRunInOrder ==
    /\ [](fp.active =>
            /\ fp.pos \in 1..(Len(Stages) + 1)
            /\ fp.trace = SubSeq(Stages, 1, fp.pos - 1)
            /\ fp.pos = 1 => fp.cur = BatchTensor(fp.batch)
            /\ fp.pos >= 2 => fp.cur.data = Normalize_call(BatchTensor(fp.batch)).data)
    /\ [][(fp.active /\ fp'.active) =>
            (fp' = fp \/ (fp'.pos = fp.pos + 1 /\ fp'.trace = Append(fp.trace, Stages[fp.pos])))]_vars
    /\ [][(fp.active /\ ~fp'.active) => fp.trace = Stages]_vars

C2_Witness ==
    /\ pc = "evaluate"
    /\ PassComplete
    /\ fp.mode = "test"
    /\ fp.trace = Stages
    /\ fitSteps = MaxFitSteps

\* What the assembled model computes from a batch and the Dense parameters.
PipelineFn(b, w) ==
    Dense_call(
        Dense_call(Flatten_call(Normalize_call(BatchTensor(b))),
                   "dense_1", Units1, "relu", w.dense_1),
        "dense_2", Units2, "sigmoid", w.dense_2)

\* C4: the output of a forward pass is a function of the input batch and the
\* stages' parameters alone, the same in training, validation and evaluation,
\* whatever ran before.
C4_OutputDependsOnInputAndParams ==
    PassComplete => fp.cur = PipelineFn(fp.batch, weights)

\* A pass of evaluation after training that changed the parameters.
C4_Witness ==
    /\ PassComplete
    /\ fp.mode = "test"
    /\ evalSteps = 2
    /\ weights = [dense_1 |-> 1, dense_2 |-> 0]
    /\ fp.batch = <<3>>

\* C7: assembly on the declared input shape (28, 28) raises no shape error,
\* the model maps (None, 28, 28) to (None, 10), and a pass over a batch of n
\* images ends with a tensor of shape (n, 10): (1, 10) for one all-zero image.
C7_AssemblyAndOutputShape ==
    /\ pc # "error"
    /\ model.created =>
          /\ model.input_shape = <<None, ImgRows, ImgCols>>
          /\ model.output_shape = <<None, 10>>
    /\ PassComplete => fp.cur.shape = <<Len(fp.batch), 10>>

C7_Witness ==
    /\ PassComplete
    /\ fp.batch = <<1>>
    /\ BatchTensor(fp.batch) = Filled(<<1, 28, 28>>, 0)
    /\ fp.cur.shape = <<1, 10>>

\* C8: Normalize has no trainable parameters and no side effects: building
\* it sets kernel to None and nothing else, the parameters that training
\* updates are those of the two Dense layers only, a stage that runs changes
\* neither the parameters nor the model, and once built the layer never
\* changes, through calls, training and evaluation.
C8_NormalizeIsStateless ==
    /\ [](norm.built => norm.kernel = "None")
    /\ [](DOMAIN weights = {"dense_1", "dense_2"})
    /\ [][(~norm.built /\ norm'.built) =>
            norm' = [norm EXCEPT !.built = TRUE, !.kernel = "None"]]_vars
    /\ [][norm.built => norm' = norm]_vars
    /\ [][(fp.active /\ fp'.active) => (weights' = weights /\ model' = model)]_vars

\* After training has changed the Dense parameters, an evaluation pass has
\* called the layer again.
C8_Witness ==
    /\ pc = "evaluate"
    /\ fp.active
    /\ fp.pos = 2
    /\ norm = [constructed |-> TRUE, built |-> TRUE, kernel |-> "None"]
    /\ weights.dense_1 = 1

\* C9: once Model(inputs, outputs) exists, its sequence of stages is the one
\* given at assembly, through compile, fit and evaluate; training changes
\* the Dense parameters and nothing of the structure.
C9_StructureFixedAtAssembly ==
    /\ [](model.created =>
            /\ model.layers = outputs.history
            /\ model.layers = Stages)
    /\ [][model.created =>
            /\ model'.created
            /\ model'.layers = model.layers
            /\ model'.input_shape = model.input_shape
            /\ model'.output_shape = model.output_shape
            /\ <<inputs, x, outputs>>' = <<inputs, x, outputs>>]_vars

C9_Witness ==
    /\ pc = "done"
    /\ model.compiled
    /\ model.layers = Stages
    /\ weights = [dense_1 |-> 1, dense_2 |-> 1]

\* C10: the shape of the input the Normalize layer processes is fixed when
\* the object is constructed: every input it processes has one shape.
C10_ShapeFixedAtInstantiation ==
    ncalls > 0 => inp.shape = firstShape

====
